---- MODULE Spec2Model ----
(***************************************************************************)
(* Model of bevy_trickfilm's 2D animation player                           *)
(* (src/src/animation/mod.rs): the playback state PlayingAnimation2D, its  *)
(* time-stepping update, and the control surface of AnimationPlayer2D.     *)
(*                                                                         *)
(* Times (delta, elapsed, seek_time, clip durations) are f32 seconds in    *)
(* the source.  They are modelled as integers counting one fixed unit of   *)
(* time, so that +, *, comparison and the remainder are exact; f32         *)
(* rounding, NaN and the infinities are outside the model.  speed is an    *)
(* integer factor.                                                         *)
(***************************************************************************)
EXTENDS Integers, FiniteSets, Sequences, TLC

VARIABLES paused, animation, last

vars == <<paused, animation, last>>

(* ------------------------------ bounds --------------------------------- *)
\* largest delta of one tick, in time units
MaxDelta == 4
\* ticks are generated only while the accumulated elapsed time stays below this
MaxElapsed == 4
\* largest |seek_time| a caller passes to seek_to or a tick may produce
MaxSeek == 3
\* largest n of RepeatAnimation::Count(n) a caller passes
MaxCount == 2
\* ticks are generated only while completions stays below this
MaxCompletions == 2
\* largest |speed| a caller passes to set_speed
MaxSpeed == 1

(* --------------------------- data model -------------------------------- *)
\* bevy::animation::RepeatAnimation
Never == [kind |-> "Never", n |-> 0]
Forever == [kind |-> "Forever", n |-> 0]
Count(n) == [kind |-> "Count", n |-> n]

RepeatAnimation == {Never, Forever} \cup {Count(n) : n \in 0..MaxCount}

\* Handle<AnimationClip2D>: the default handle and the handles of two loaded clips
DefaultHandle == "default"
Handles == {"idle", "run"}

\* the handle of a third, longer loaded clip
LongHandle == "walk"

\* AnimationClip2D::duration of the loaded clips, in time units
ClipDuration(h) == IF h = "idle" THEN 2 ELSE IF h = "run" THEN 3 ELSE 4

\* impl Default for PlayingAnimation2D (RepeatAnimation's default is Never)
Default ==
    [repeat |-> Never,
     reverse |-> FALSE,
     clip_finished |-> FALSE,
     speed |-> 1,
     elapsed |-> 0,
     seek_time |-> 0,
     animation_clip |-> DefaultHandle,
     completions |-> 0]

(* ----------------------- PlayingAnimation2D ---------------------------- *)
\* is_finished comparing with > where the source compares with >=
is_finished_strict(a) ==
    CASE a.repeat.kind = "Forever" -> FALSE
      [] a.repeat.kind = "Never" -> a.completions > 1
      [] a.repeat.kind = "Count" -> a.completions > a.repeat.n

\* PlayingAnimation2D::is_finished
is_finished(a) ==
    CASE a.repeat.kind = "Forever" -> FALSE
      [] a.repeat.kind = "Never" -> a.completions >= 1
      [] a.repeat.kind = "Count" -> a.completions >= a.repeat.n

\* update testing the reverse boundary with < where the source tests with <=
update_strict_reverse_boundary(a, delta, clip_duration) ==
    IF a.repeat.kind # "Forever" /\ a.completions >= (IF a.repeat.kind = "Never" THEN 1 ELSE a.repeat.n)
    THEN a
    ELSE
      LET direction_multiplier == IF a.reverse THEN -1 ELSE 1
          moved == a.seek_time + delta * a.speed * direction_multiplier
          wrapped == IF moved >= clip_duration THEN moved % clip_duration
                     ELSE IF moved < 0 THEN moved + clip_duration
                     ELSE moved
          hit == (a.reverse /\ wrapped < 0) \/ (~a.reverse /\ wrapped >= clip_duration)
      IN [a EXCEPT !.elapsed = @ + delta,
                   !.seek_time = IF hit THEN (IF a.reverse THEN clip_duration ELSE 0)
                                 ELSE wrapped,
                   !.completions = IF hit THEN @ + 1 ELSE @]

\* update accumulating the scaled, signed travel instead of the delta
update_elapsed_scaled(a, delta, clip_duration) ==
    IF a.repeat.kind # "Forever" /\ a.completions >= (IF a.repeat.kind = "Never" THEN 1 ELSE a.repeat.n)
    THEN a
    ELSE
      LET direction_multiplier == IF a.reverse THEN -1 ELSE 1
          moved == a.seek_time + delta * a.speed * direction_multiplier
          wrapped == IF moved >= clip_duration THEN moved % clip_duration
                     ELSE IF moved < 0 THEN moved + clip_duration
                     ELSE moved
          hit == (a.reverse /\ wrapped <= 0) \/ (~a.reverse /\ wrapped >= clip_duration)
      IN [a EXCEPT !.elapsed = @ + delta * a.speed,
                   !.seek_time = IF hit THEN (IF a.reverse THEN clip_duration ELSE 0)
                                 ELSE wrapped,
                   !.completions = IF hit THEN @ + 1 ELSE @]

\* update without the is_finished short-circuit
update_unguarded(a, delta, clip_duration) ==
    LET direction_multiplier == IF a.reverse THEN -1 ELSE 1
        moved == a.seek_time + delta * a.speed * direction_multiplier
        wrapped == IF moved >= clip_duration THEN moved % clip_duration
                   ELSE IF moved < 0 THEN moved + clip_duration
                   ELSE moved
        hit == (a.reverse /\ wrapped <= 0) \/ (~a.reverse /\ wrapped >= clip_duration)
    IN [a EXCEPT !.elapsed = @ + delta,
                 !.seek_time = IF hit THEN (IF a.reverse THEN clip_duration ELSE 0)
                               ELSE wrapped,
                 !.completions = IF hit THEN @ + 1 ELSE @]

\* update counting one completion per clip duration the delta spans
update_counting_loops(a, delta, clip_duration) ==
    IF a.repeat.kind # "Forever" /\ a.completions >= (IF a.repeat.kind = "Never" THEN 1 ELSE a.repeat.n)
    THEN a
    ELSE
      LET direction_multiplier == IF a.reverse THEN -1 ELSE 1
          travel == delta * a.speed * direction_multiplier
          moved == a.seek_time + travel
          wrapped == IF moved >= clip_duration THEN moved % clip_duration
                     ELSE IF moved < 0 THEN moved + clip_duration
                     ELSE moved
          hit == (a.reverse /\ wrapped <= 0) \/ (~a.reverse /\ wrapped >= clip_duration)
          loops == (IF travel < 0 THEN -travel ELSE travel) \div clip_duration
      IN [a EXCEPT !.elapsed = @ + delta,
                   !.seek_time = IF hit THEN (IF a.reverse THEN clip_duration ELSE 0)
                                 ELSE wrapped,
                   !.completions = IF hit THEN @ + (IF loops > 1 THEN loops ELSE 1) ELSE @]

\* PlayingAnimation2D::update
update(a, delta, clip_duration) ==
    IF is_finished(a) THEN a
    ELSE
      LET direction_multiplier == IF a.reverse THEN -1 ELSE 1
          moved == a.seek_time + delta * a.speed * direction_multiplier
          wrapped == IF moved >= clip_duration THEN moved % clip_duration
                     ELSE IF moved < 0 THEN moved + clip_duration
                     ELSE moved
          hit == (a.reverse /\ wrapped <= 0) \/ (~a.reverse /\ wrapped >= clip_duration)
      IN [a EXCEPT !.elapsed = @ + delta,
                   !.seek_time = IF hit THEN (IF a.reverse THEN clip_duration ELSE 0)
                                 ELSE wrapped,
                   !.completions = IF hit THEN @ + 1 ELSE @]

\* replay leaving the elapsed accumulator as it is
replay_keeping_elapsed(a) == [a EXCEPT !.completions = 0, !.seek_time = 0]

\* PlayingAnimation2D::replay
replay(a) == [a EXCEPT !.completions = 0, !.elapsed = 0, !.seek_time = 0]

(* ------------------------- AnimationPlayer2D --------------------------- *)
\* The record of the call that produced the current state: the method, its
\* numeric argument, its handle argument, the player's fields before the
\* call, and run, the number of ticks of exactly one clip duration fed since
\* an un-paused start that only set_repeat (before the first tick) followed
\* (-1 when the calls so far are not of that shape; counted up to MaxCount + 1).
Call(op, num, handle, run) ==
    [op |-> op, num |-> num, handle |-> handle, run |-> run,
     pre |-> animation, prepaused |-> paused]

\* start keeping the playback settings of the previous animation
started_keeping_settings(handle) ==
    [Default EXCEPT !.animation_clip = handle,
                    !.repeat = animation.repeat,
                    !.reverse = animation.reverse,
                    !.speed = animation.speed]

\* AnimationPlayer2D::start: the animation a start(handle) leaves
started(handle) == [Default EXCEPT !.animation_clip = handle]

start(handle) ==
    /\ animation' = started(handle)
    /\ paused' = paused
    /\ last' = Call("start", 0, handle, IF paused THEN -1 ELSE 0)

\* AnimationPlayer2D::is_paused
is_paused == paused

\* play restarting on every call
played_always_restarts(a, p, handle) == started(handle)

\* play restarting only when the bound clip differs
played_ignoring_pause(a, p, handle) ==
    IF a.animation_clip # handle THEN started(handle) ELSE a

\* AnimationPlayer2D::play: the animation a play(handle) leaves
played(a, p, handle) ==
    IF a.animation_clip # handle \/ p THEN started(handle) ELSE a

play(handle) ==
    /\ animation' = played(animation, is_paused, handle)
    /\ paused' = paused
    /\ last' = Call("play", 0, handle, -1)

\* AnimationPlayer2D::is_finished
player_is_finished == is_finished(animation)

\* AnimationPlayer2D::is_clip_finished
is_clip_finished == animation.clip_finished

\* reverse also negating the speed
reverse_negating_speed ==
    /\ animation' = [animation EXCEPT !.reverse = TRUE, !.speed = -@]
    /\ paused' = paused
    /\ last' = Call("reverse", 0, DefaultHandle, -1)

\* AnimationPlayer2D::reverse
reverse ==
    /\ animation' = [animation EXCEPT !.reverse = TRUE]
    /\ paused' = paused
    /\ last' = Call("reverse", 0, DefaultHandle, -1)

\* AnimationPlayer2D::stop_reverse
stop_reverse ==
    /\ animation' = [animation EXCEPT !.reverse = FALSE]
    /\ paused' = paused
    /\ last' = Call("stop_reverse", 0, DefaultHandle, -1)

\* AnimationPlayer2D::repeat
repeat ==
    /\ animation' = [animation EXCEPT !.repeat = Forever]
    /\ paused' = paused
    /\ last' = Call("repeat", 0, DefaultHandle, -1)

\* AnimationPlayer2D::set_repeat
set_repeat(r) ==
    /\ animation' = [animation EXCEPT !.repeat = r]
    /\ paused' = paused
    /\ last' = Call("set_repeat", r.n, DefaultHandle, IF last.run = 0 THEN 0 ELSE -1)

\* AnimationPlayer2D::is_playback_reversed
is_playback_reversed == animation.speed < 0

\* AnimationPlayer2D::pause
pause ==
    /\ paused' = TRUE
    /\ animation' = animation
    /\ last' = Call("pause", 0, DefaultHandle, -1)

\* AnimationPlayer2D::resume
resume ==
    /\ paused' = FALSE
    /\ animation' = animation
    /\ last' = Call("resume", 0, DefaultHandle, -1)

\* AnimationPlayer2D::set_speed
set_speed(s) ==
    /\ animation' = [animation EXCEPT !.speed = s]
    /\ paused' = paused
    /\ last' = Call("set_speed", s, DefaultHandle, -1)

\* AnimationPlayer2D::seek_to
seek_to(t) ==
    /\ animation' = [animation EXCEPT !.seek_time = t]
    /\ paused' = paused
    /\ last' = Call("seek_to", t, DefaultHandle, -1)

\* AnimationPlayer2D::replay
player_replay ==
    /\ animation' = replay(animation)
    /\ paused' = paused
    /\ last' = Call("replay", 0, DefaultHandle, -1)

\* a tick forwarded to update whether or not the player is paused
ticked_ignoring_pause(a, p, delta) ==
    update(a, delta, ClipDuration(a.animation_clip))

\* The per-tick entry point (the animation_player_spritesheet system): the
\* bound handle is resolved to a loaded clip and, if the player is not
\* paused, the tick is forwarded to update with the clip's duration.
ticked(a, p, delta) ==
    IF p THEN a ELSE update(a, delta, ClipDuration(a.animation_clip))

Abs(x) == IF x < 0 THEN -x ELSE x

tick(delta) ==
    /\ animation.animation_clip \in Handles
    /\ LET next == ticked(animation, paused, delta)
       IN /\ next.elapsed <= MaxElapsed
          /\ next.completions <= MaxCompletions
          /\ Abs(next.seek_time) <= MaxSeek
          /\ animation' = next
    /\ paused' = paused
    /\ last' = Call("tick", delta, DefaultHandle,
                  IF last.run >= 0 /\ delta = ClipDuration(animation.animation_clip)
                  THEN (IF last.run > MaxCount THEN last.run ELSE last.run + 1)
                  ELSE -1)

\* The time after which a reverse run at speed 1 with the fixed delta has
\* either finished or will never finish: an unfinished playback under
\* Never or Count(n) has its cursor in 0..clip_duration and completions in
\* 0..n-1, update is a function of these (it never reads elapsed), so after
\* (clip_duration + 1) * n ticks an unfinished run has been in some
\* (seek_time, completions) twice and repeats from there forever.
Horizon(a, delta) ==
    (ClipDuration(a.animation_clip) + 1)
        * (IF a.repeat.kind = "Never" THEN 1 ELSE a.repeat.n) * delta

\* The per-tick entry point in a run with one fixed delta, followed up to
\* the run's Horizon.
tick_long(delta) ==
    /\ animation.animation_clip # DefaultHandle
    /\ LET next == ticked(animation, paused, delta)
       IN /\ next.elapsed <= Horizon(animation, delta)
          /\ animation' = next
    /\ paused' = paused
    /\ last' = Call("tick", delta, DefaultHandle, -1)

(* --------------------------- specification ----------------------------- *)
\* AnimationPlayer2D::default()
Init ==
    /\ paused = FALSE
    /\ animation = Default
    /\ last = [op |-> "new", num |-> 0, handle |-> DefaultHandle, run |-> -1,
               pre |-> Default, prepaused |-> FALSE]

Next ==
    \/ \E h \in Handles : start(h)
    \/ \E h \in Handles : play(h)
    \/ reverse
    \/ stop_reverse
    \/ repeat
    \/ \E r \in RepeatAnimation : set_repeat(r)
    \/ pause
    \/ resume
    \/ \E s \in (-MaxSpeed)..MaxSpeed : set_speed(s)
    \/ \E t \in (-MaxSeek)..MaxSeek : seek_to(t)
    \/ player_replay
    \/ \E d \in 0..MaxDelta : tick(d)

Spec == Init /\ [][Next]_vars

\* A playback that was started on a clip and configured once (repeat policy,
\* direction, speed) before the first tick, and is then only ticked with
\* positive deltas.
InitRun ==
    /\ paused = FALSE
    /\ \E h \in Handles, r \in {Never} \cup {Count(n) : n \in 1..MaxCount},
          rev \in BOOLEAN, s \in (-MaxSpeed)..MaxSpeed :
          /\ animation = [started(h) EXCEPT !.repeat = r, !.reverse = rev, !.speed = s]
          /\ last = [op |-> "set_repeat", num |-> r.n, handle |-> DefaultHandle,
                     run |-> IF ~rev /\ s = 1 THEN 0 ELSE -1,
                     pre |-> started(h), prepaused |-> FALSE]

NextRun == \E d \in 1..MaxDelta : tick(d)

SpecRun == InitRun /\ [][NextRun]_vars

\* A playback that was started on a clip and plays at speed 1 in a direction
\* and under a repeat policy chosen before the first tick; the caller then
\* only seeks and ticks.
InitSeek ==
    /\ paused = FALSE
    /\ \E h \in Handles, r \in {Never, Forever}, rev \in BOOLEAN :
          /\ animation = [started(h) EXCEPT !.repeat = r, !.reverse = rev]
          /\ last = [op |-> "set_repeat", num |-> 0, handle |-> DefaultHandle,
                     run |-> -1, pre |-> started(h), prepaused |-> FALSE]

NextSeek ==
    \/ \E t \in (-MaxSeek)..MaxSeek : seek_to(t)
    \/ \E d \in 0..MaxDelta : tick(d)

SpecSeek == InitSeek /\ [][NextSeek]_vars

\* Reverse playback at speed 1 under a finite repeat policy, from a cursor
\* within [0, clip_duration] set by seek_to, ticked on every frame with one
\* fixed delta, 0 < delta < clip_duration.
InitReverse ==
    /\ paused = FALSE
    /\ \E h \in Handles \cup {LongHandle},
          r \in {Never} \cup {Count(n) : n \in 1..MaxCount} :
          \E c \in 0..ClipDuration(h) :
             LET a == [started(h) EXCEPT !.repeat = r, !.reverse = TRUE]
             IN /\ animation = [a EXCEPT !.seek_time = c]
                /\ last = [op |-> "seek_to", num |-> c, handle |-> DefaultHandle,
                           run |-> -1, pre |-> a, prepaused |-> FALSE]

NextReverse ==
    \E d \in 1..(ClipDuration(animation.animation_clip) - 1) :
        /\ last.op = "tick" => d = last.num
        /\ tick_long(d)

SpecReverse == InitReverse /\ [][NextReverse]_vars

TypeOK ==
    /\ paused \in BOOLEAN
    /\ animation.repeat \in RepeatAnimation
    /\ animation.reverse \in BOOLEAN
    /\ animation.completions \in Nat
    /\ animation.elapsed \in Nat

(* ------------------------------ claims --------------------------------- *)
\* the duration of the clip that was bound when the last call was made
PreDuration == ClipDuration(last.pre.animation_clip)

\* the last call was a tick that the un-paused player forwarded to update
Updated == last.op = "tick" /\ ~last.prepaused

\* C1: an update with delta >= 0 that starts from a cursor within
\* [0, clip_duration] leaves seek_time within [0, clip_duration], for every
\* speed and either value of reverse.
C1_CursorInRange ==
    (Updated /\ last.pre.seek_time \in 0..PreDuration)
        => animation.seek_time \in 0..PreDuration

\* C2: with repeat = Count(n), n >= 1, fixed before the first tick, ticks with
\* positive deltas never take completions above n, and is_finished() holds
\* exactly in the states where completions = n.
C2_CountBound ==
    animation.repeat.kind = "Count" =>
        /\ animation.completions <= animation.repeat.n
        /\ is_finished(animation) <=> animation.completions = animation.repeat.n

C2_Witness ==
    /\ Updated
    /\ animation.repeat = Count(MaxCount)
    /\ last.pre.completions = MaxCount - 1
    /\ animation.completions = MaxCount
    /\ is_finished(animation)

\* C3: in forward playback at speed 1, an update whose delta carries the
\* cursor to or past clip_duration leaves seek_time at the remainder modulo
\* clip_duration and increments completions by exactly 1.
C3_ForwardWrap ==
    (/\ Updated
     /\ ~is_finished(last.pre)
     /\ ~last.pre.reverse
     /\ last.pre.speed = 1
     /\ last.pre.seek_time \in 0..PreDuration
     /\ last.pre.seek_time + last.num >= PreDuration)
        => /\ animation.seek_time = (last.pre.seek_time + last.num) % PreDuration
           /\ animation.completions = last.pre.completions + 1

\* C4: a player started on a clip, given set_repeat(Count(n)) and ticked
\* forward with delta equal to the clip duration is not finished after fewer
\* than n ticks and is finished after n ticks.
C4_CountScenario ==
    (last.run >= 0 /\ animation.repeat.kind = "Count" /\ animation.repeat.n >= 1)
        => (is_finished(animation) <=> last.run >= animation.repeat.n)

\* C5: with repeat = Never, is_finished() is false until one full traversal
\* of the clip has been played and true from then on; at speed 1 the
\* traversal is complete when the time fed reaches the clip duration.
C5_NeverFinishesOnce ==
    (animation.repeat = Never /\ animation.speed = 1) =>
        (is_finished(animation) <=>
            animation.elapsed >= ClipDuration(animation.animation_clip))

\* C6: an update called while is_finished() is true leaves every field of
\* the playback state unchanged.
C6_FinishedShortCircuit ==
    (Updated /\ is_finished(last.pre)) => animation = last.pre

C6_Witness ==
    /\ Updated
    /\ is_finished(last.pre)
    /\ last.num > 0
    /\ last.pre.speed # 0
    /\ animation = last.pre

\* C7: a single update never decreases completions and increases it by at
\* most 1, also when the delta spans several clip durations.
C7_AtMostOneCompletion ==
    Updated =>
        animation.completions - last.pre.completions \in {0, 1}

C7_Witness ==
    /\ Updated
    /\ last.num * Abs(last.pre.speed) >= 2 * PreDuration
    /\ animation.completions = last.pre.completions + 1

\* C8: after any update that registers a boundary hit, is_clip_finished()
\* is true, whatever the repeat policy.
C8_ClipFinishedOnBoundary ==
    (Updated /\ animation.completions = last.pre.completions + 1)
        => is_clip_finished

\* C9: play(h) on an un-paused player that already has h bound leaves the
\* whole playback state (and the paused flag) unchanged.
C9_PlayIdempotent ==
    (last.op = "play" /\ ~last.prepaused /\ last.pre.animation_clip = last.handle)
        => animation = last.pre /\ paused = last.prepaused

C9_Witness ==
    /\ last.op = "play"
    /\ ~last.prepaused
    /\ last.pre.animation_clip = last.handle
    /\ last.pre.seek_time > 0
    /\ last.pre.elapsed > 0
    /\ last.pre.completions > 0
    /\ last.pre.repeat = Forever
    /\ last.pre.reverse
    /\ last.pre.speed # 1
    /\ animation = last.pre

\* C10: play(h) on a player whose bound clip differs from h, or that is
\* paused, leaves a fresh default playback state bound to h and the paused
\* flag as it was.
C10_PlayRestarts ==
    (last.op = "play" /\ (last.pre.animation_clip # last.handle \/ last.prepaused))
        => /\ animation.animation_clip = last.handle
           /\ animation.repeat = Never
           /\ ~animation.reverse
           /\ ~animation.clip_finished
           /\ animation.speed = 1
           /\ animation.elapsed = 0
           /\ animation.seek_time = 0
           /\ animation.completions = 0
           /\ paused = last.prepaused

C10_Witness ==
    /\ last.op = "play"
    /\ last.prepaused
    /\ last.pre.animation_clip = last.handle
    /\ last.pre.elapsed > 0
    /\ last.pre.seek_time > 0
    /\ animation.seek_time = 0
    /\ animation.elapsed = 0
    /\ paused

\* C11: start(h) leaves the playback bound to h with repeat = Never,
\* reverse = false, speed = 1, elapsed = 0, seek_time = 0, completions = 0
\* and clip_finished = false, and leaves the paused flag as it was.
C11_StartResets ==
    last.op = "start" =>
        /\ animation.animation_clip = last.handle
        /\ animation.repeat = Never
        /\ animation.reverse = FALSE
        /\ animation.speed = 1
        /\ animation.elapsed = 0
        /\ animation.seek_time = 0
        /\ animation.completions = 0
        /\ animation.clip_finished = FALSE
        /\ paused = last.prepaused

C11_Witness ==
    /\ last.op = "start"
    /\ last.prepaused
    /\ last.pre.animation_clip \in Handles
    /\ last.pre.animation_clip # last.handle
    /\ last.pre.repeat = Forever
    /\ last.pre.reverse
    /\ last.pre.speed = -1
    /\ last.pre.elapsed > 0
    /\ last.pre.seek_time > 0
    /\ last.pre.completions > 0
    /\ animation = [Default EXCEPT !.animation_clip = last.handle]
    /\ paused

\* C12: replay() sets seek_time, elapsed and completions to 0 and leaves
\* repeat, reverse, speed, the bound clip and the paused flag unchanged.
C12_ReplayResets ==
    last.op = "replay" =>
        /\ animation.seek_time = 0
        /\ animation.elapsed = 0
        /\ animation.completions = 0
        /\ animation.repeat = last.pre.repeat
        /\ animation.reverse = last.pre.reverse
        /\ animation.speed = last.pre.speed
        /\ animation.animation_clip = last.pre.animation_clip
        /\ paused = last.prepaused

C12_Witness ==
    /\ last.op = "replay"
    /\ last.pre.seek_time > 0
    /\ last.pre.elapsed > 0
    /\ last.pre.completions > 0
    /\ last.pre.repeat = Count(MaxCount)
    /\ last.pre.reverse
    /\ last.pre.speed = -1
    /\ last.pre.animation_clip \in Handles
    /\ animation.seek_time = 0
    /\ animation.elapsed = 0
    /\ animation.completions = 0
    /\ animation.repeat = Count(MaxCount)

\* C13: seek_to(t) stores t as seek_time without clamping, and the next
\* update (delta >= 0, unfinished playback) brings seek_time back within
\* [0, clip_duration], for every t.
C13_LazyClamp ==
    /\ last.op = "seek_to" => animation.seek_time = last.num
    /\ (Updated /\ ~is_finished(last.pre))
          => animation.seek_time \in 0..PreDuration

\* C14: pause() sets paused and resume() clears it; a tick that arrives while
\* paused leaves the playback state unchanged, and a tick that arrives while
\* not paused is forwarded to update (an unfinished playback accumulates
\* its delta).
C14_PausedTicksFrozen ==
    /\ last.op = "pause" => paused
    /\ last.op = "resume" => ~paused
    /\ (last.op = "tick" /\ last.prepaused) => (animation = last.pre /\ paused)
    /\ (last.op = "tick" /\ ~last.prepaused /\ ~is_finished(last.pre))
          => animation.elapsed = last.pre.elapsed + last.num

C14_Witness ==
    /\ last.op = "tick"
    /\ last.prepaused
    /\ last.num > 0
    /\ last.pre.speed # 0
    /\ ~is_finished(last.pre)
    /\ last.pre.elapsed > 0
    /\ animation = last.pre

\* C15: each control setter changes only its own field: pause/resume only
\* paused, reverse/stop_reverse only the reverse flag, set_speed only speed,
\* repeat/set_repeat only the repeat policy; is_playback_reversed() is not
\* affected by reverse/stop_reverse.
C15_SettersFrame ==
    /\ last.op = "pause" => (paused /\ animation = last.pre)
    /\ last.op = "resume" => (~paused /\ animation = last.pre)
    /\ last.op = "reverse" =>
          /\ animation = [last.pre EXCEPT !.reverse = TRUE]
          /\ is_playback_reversed = (last.pre.speed < 0)
    /\ last.op = "stop_reverse" =>
          /\ animation = [last.pre EXCEPT !.reverse = FALSE]
          /\ is_playback_reversed = (last.pre.speed < 0)
    /\ last.op = "set_speed" => animation = [last.pre EXCEPT !.speed = last.num]
    /\ last.op = "repeat" => animation = [last.pre EXCEPT !.repeat = Forever]
    /\ last.op = "set_repeat" =>
          [animation EXCEPT !.repeat = last.pre.repeat] = last.pre
    /\ last.op \in {"reverse", "stop_reverse", "set_speed", "repeat", "set_repeat"}
          => paused = last.prepaused

C15_Witness ==
    /\ last.op = "reverse"
    /\ ~last.pre.reverse
    /\ animation.reverse
    /\ last.pre.speed < 0
    /\ is_playback_reversed
    /\ animation.seek_time > 0
    /\ animation.elapsed > 0
    /\ animation.completions > 0
    /\ animation.animation_clip \in Handles

\* C16: is_finished() depends on repeat and completions only: false for
\* Forever whatever completions is, completions >= 1 for Never,
\* completions >= n for Count(n).
C16_IsFinishedTable ==
    /\ animation.repeat = Forever => ~player_is_finished
    /\ animation.repeat = Never => (player_is_finished <=> animation.completions >= 1)
    /\ animation.repeat.kind = "Count"
          => (player_is_finished <=> animation.completions >= animation.repeat.n)

C16_Witness ==
    /\ animation.repeat = Forever
    /\ animation.completions = MaxCompletions
    /\ last.op = "tick"
    /\ last.pre.completions = MaxCompletions - 1
    /\ ~player_is_finished

\* the cursor of the last update before wrapping, in reverse playback at speed 1
ReverseMoved == last.pre.seek_time - last.num

\* C17: in reverse playback at speed 1, an update that drives the cursor
\* below 0 by less than one clip duration wraps it to cursor + clip_duration
\* and registers no completion; an update that brings the cursor to exactly
\* 0 registers exactly one completion and snaps seek_time to clip_duration.
C17_ReverseBoundary ==
    (Updated /\ ~is_finished(last.pre) /\ last.pre.reverse /\ last.pre.speed = 1) =>
        /\ (ReverseMoved < 0 /\ ReverseMoved > -PreDuration) =>
              /\ animation.seek_time = ReverseMoved + PreDuration
              /\ animation.completions = last.pre.completions
        /\ ReverseMoved = 0 =>
              /\ animation.seek_time = PreDuration
              /\ animation.completions = last.pre.completions + 1

C17_Witness ==
    /\ Updated
    /\ ~is_finished(last.pre)
    /\ last.pre.reverse
    /\ last.pre.speed = 1
    /\ last.num > 0
    /\ last.pre.seek_time = last.num
    /\ last.pre.elapsed > 0
    /\ animation.seek_time = PreDuration
    /\ animation.completions = last.pre.completions + 1

\* play(h) that took the branch calling start(h)
PlayStarted ==
    last.op = "play" /\ (last.pre.animation_clip # last.handle \/ last.prepaused)

\* C18: every update of an unfinished playback adds exactly delta to
\* elapsed, whatever speed and reverse are and whether or not the cursor
\* wrapped or a completion was registered; elapsed only ever decreases by
\* being set to 0 in replay() or start() (which play calls when it
\* restarts); seek_to and the setters leave it unchanged.
C18_ElapsedAccumulates ==
    /\ (Updated /\ ~is_finished(last.pre))
          => animation.elapsed = last.pre.elapsed + last.num
    /\ last.op = "tick" => animation.elapsed >= last.pre.elapsed
    /\ animation.elapsed < last.pre.elapsed
          => (animation.elapsed = 0 /\ (last.op \in {"replay", "start"} \/ PlayStarted))
    /\ last.op \in {"seek_to", "pause", "resume", "reverse", "stop_reverse",
                    "set_speed", "repeat", "set_repeat"}
          => animation.elapsed = last.pre.elapsed

C18_Witness ==
    /\ Updated
    /\ ~is_finished(last.pre)
    /\ last.num > 0
    /\ last.pre.speed = -1
    /\ last.pre.reverse
    /\ last.pre.elapsed > 0
    /\ animation.completions = last.pre.completions + 1
    /\ animation.elapsed = last.pre.elapsed + last.num

\* C19: for an unfinished playback with the cursor in [0, clip_duration], an
\* update with delta = 0 leaves seek_time and completions unchanged, in both
\* directions, also when the cursor sits on a boundary.
C19_ZeroTickNoOp ==
    (/\ Updated
     /\ last.num = 0
     /\ ~is_finished(last.pre)
     /\ last.pre.seek_time \in 0..PreDuration)
        => /\ animation.seek_time = last.pre.seek_time
           /\ animation.completions = last.pre.completions

\* C20: reverse playback at speed 1 under Never or Count(n), ticked with a
\* fixed delta, 0 < delta < clip_duration, from any cursor in
\* [0, clip_duration], eventually makes is_finished() true.  A run that
\* finishes at all finishes within its Horizon, so "eventually" is: once the
\* time fed reaches the Horizon of the run, is_finished() is true.
C20_ReverseFinishes ==
    (last.op = "tick" /\ animation.elapsed >= Horizon(animation, last.num))
        => player_is_finished
====
